---- MODULE Spec2Model ----
(***************************************************************************)
(* Model of torch/_inductor/codegen/multi_kernel.py:                       *)
(*   MultiKernelState  - the registry of multi-kernel definitions          *)
(*   MultiKernel       - the compile-time handle of a group of sub-kernels *)
(*   MultiKernelCall   - the run-time object that benchmarks the           *)
(*                       sub-kernels once and then dispatches to the       *)
(*                       fastest one                                       *)
(***************************************************************************)
EXTENDS Integers, Sequences, FiniteSets, TLC

VARIABLES
    \* MultiKernelState (compile time)
    subkernel_to_kernel_name,   \* dict: tuple of sub-kernel names -> multi-kernel name
    used_names,                 \* set of multi-kernel names handed out
    header,                     \* V.graph.wrapper_code.header: the blocks spliced so far
    mk,                         \* the last MultiKernel(kernels) construction and its outcome
    \* MultiKernelCall (run time)
    _kernels,                   \* self._kernels (<<>> while no MultiKernelCall exists)
    picked_kernel,              \* self.picked_kernel: <<>> is None, <<i>> is the index i
    ctor,                       \* the last MultiKernelCall(kernels, src) construction and its outcome
    compile,                    \* state of the asynchronous compilation behind each TritonFuture
    acc_pc, acc_i, acc_ret,     \* the `kernels` property: position, loop index, outcome
    rwak,                       \* the last run_with_argless_kernels call and its outcome
    npasses, ndecide,           \* benchmarking passes entered, assignments of picked_kernel
    run_pc, run_i,              \* run_with_argless_kernels taken statement by statement
    other,                      \* the attributes of a second MultiKernelCall instance
    \* Module-level functions
    pf                          \* the last call of a module-level function and its result

registry_vars == <<subkernel_to_kernel_name, used_names, header>>
call_vars == <<_kernels, picked_kernel, ctor, compile, acc_pc, acc_i, acc_ret, rwak,
               npasses, ndecide>>
aux_vars == <<run_pc, run_i, other, pf>>
vars == <<subkernel_to_kernel_name, used_names, header, mk,
          _kernels, picked_kernel, ctor, compile, acc_pc, acc_i, acc_ret, rwak,
          npasses, ndecide, run_pc, run_i, other, pf>>

----------------------------------------------------------------------------
(* Bounds *)

MaxGroupSize == 3       \* longest list of sub-kernels handed to a constructor
MaxCalls == 3           \* longest list handed to run_with_argless_kernels
MaxDuration == 2        \* do_bench results range over 1..MaxDuration
MaxPasses == 2          \* benchmarking passes entered per MultiKernelCall
MaxArgs == 2            \* longest argument list of a sub-kernel
MaxTrees == 3           \* most range trees of a sub-kernel

None == "None"

\* An Optional[int]: None, or the integer i.
NoneInt == <<>>
Int_(i) == <<i>>

Min(s) == CHOOSE x \in s : \A y \in s : x <= y

\* Mutant of list_index: the last index holding the value, not the first.
list_index_last(list, value) ==
    (CHOOSE i \in DOMAIN list :
        list[i] = value /\ \A j \in DOMAIN list : list[j] = value => j <= i) - 1

\* Mutant of list_index: the position counted from 1.
list_index_one_based(list, value) == Min({i \in DOMAIN list : list[i] = value})

\* Python's min(list) and list.index(value), 0-based (line 166).
list_min(list) == Min({list[i] : i \in DOMAIN list})
list_index(list, value) == Min({i \in DOMAIN list : list[i] = value}) - 1

----------------------------------------------------------------------------
(* Sub-kernels.  A sub-kernel is known to this file by its kernel_name.     *)

KName(i) == "k" \o ToString(i)
KernelNameSet == {KName(1), KName(2), KName(3)}

Kernel(n) == [type |-> "kernel", kernel_name |-> n]

\* Lists of 1..MaxGroupSize distinct sub-kernels (the variants of one group
\* are different kernels).
KernelLists ==
    {ks \in UNION {[1..n -> {Kernel(nm) : nm \in KernelNameSet}] : n \in 1..MaxGroupSize} :
        \A i, j \in DOMAIN ks : i # j => ks[i] # ks[j]}

----------------------------------------------------------------------------
(* Module-level functions *)

ArgNameSet == {"in_ptr0", "in_ptr1", "out_ptr0"}

\* The argument lists a sub-kernel can have: up to MaxArgs different names.
ArgLists ==
    {a \in UNION {[1..n -> ArgNameSet] : n \in 0..MaxArgs} :
        \A i, j \in DOMAIN a : i # j => a[i] # a[j]}

\* A sub-kernel as these functions see it: kernel.args.python_argdefs()[0]
\* and kernel.get_call_args().
ArgKernel(args) == [arg_defs |-> args, call_args |-> args]
ArgKernelLists ==
    UNION {[1..n -> {ArgKernel(a) : a \in ArgLists}] : n \in 1..MaxGroupSize}

get_kernel_argdefs(kernel) == kernel.arg_defs

\* Mutant of dict_update: a key already present moves to the end.
RECURSIVE dict_update_move_to_end(_, _)
dict_update_move_to_end(keys, args) ==
    IF args = <<>>
    THEN keys
    ELSE dict_update_move_to_end(
             Append(SelectSeq(keys, LAMBDA k : k # Head(args)), Head(args)), Tail(args))

\* all.update({arg: None for arg in args}) on an insertion-ordered dict whose
\* keys are `keys`: a new key goes to the end, a key already present stays
\* where it is.
RECURSIVE dict_update(_, _)
dict_update(keys, args) ==
    IF args = <<>>
    THEN keys
    ELSE dict_update(IF \E i \in DOMAIN keys : keys[i] = Head(args)
                     THEN keys
                     ELSE Append(keys, Head(args)),
                     Tail(args))

\* The loop `for x in lists: all.update(...)` followed by list(all.keys()).
RECURSIVE update_all(_, _)
update_all(keys, lists) ==
    IF lists = <<>>
    THEN keys
    ELSE update_all(dict_update(keys, Head(lists)), Tail(lists))

get_all_kernel_argdefs(kernels) ==
    LET argdefs_list == [k \in DOMAIN kernels |-> get_kernel_argdefs(kernels[k])]
    IN  update_all(<<>>, argdefs_list)

\* MultiKernel.call_kernel, lines 108-113: all_call_args before the numel
\* arguments are added to it.
call_kernel_all_call_args(kernels) ==
    LET call_args_list == [k \in DOMAIN kernels |-> kernels[k].call_args]
    IN  update_all(<<>>, call_args_list)

\* get_all_kernel_argdefs(kernels), and again with kernels[0] appended.
GetAllKernelArgdefs ==
    /\ pf.op = "input"
    /\ pf.arg \in ArgKernelLists
    /\ pf' = [op |-> "get_all_kernel_argdefs", arg |-> pf.arg,
               ret |-> <<get_all_kernel_argdefs(pf.arg),
                         get_all_kernel_argdefs(Append(pf.arg, pf.arg[1]))>>]
    /\ UNCHANGED <<registry_vars, mk, call_vars, run_pc, run_i, other>>

CallKernel ==
    /\ pf.op = "input"
    /\ pf.arg \in ArgKernelLists
    /\ pf' = [op |-> "call_kernel", arg |-> pf.arg,
               ret |-> <<call_kernel_all_call_args(pf.arg),
                         call_kernel_all_call_args(Append(pf.arg, pf.arg[1]))>>]
    /\ UNCHANGED <<registry_vars, mk, call_vars, run_pc, run_i, other>>

PrefixSet == {"x", "y", "z", "r"}

\* kernel.range_trees by prefix, and kernel.inside_reduction.
NumelKernel(prefixes, inside_reduction) ==
    [range_trees |-> [t \in DOMAIN prefixes |-> [prefix |-> prefixes[t]]],
     inside_reduction |-> inside_reduction]
NumelKernels ==
    {NumelKernel(prefixes, inside_reduction) :
        prefixes \in UNION {[1..n -> PrefixSet] : n \in 0..MaxTrees},
        inside_reduction \in BOOLEAN}

\* Mutant of numel_argdefs_from: `and` in place of `or`.
RECURSIVE numel_argdefs_from_and(_, _)
numel_argdefs_from_and(kernel, t) ==
    IF t > Len(kernel.range_trees)
    THEN <<>>
    ELSE LET tree == kernel.range_trees[t]
         IN  (IF tree.prefix # "r" /\ kernel.inside_reduction
              THEN <<tree.prefix \o "numel">>
              ELSE <<>>) \o numel_argdefs_from_and(kernel, t + 1)

\* The loop of get_numel_argdefs from range tree t on.
RECURSIVE numel_argdefs_from(_, _)
numel_argdefs_from(kernel, t) ==
    IF t > Len(kernel.range_trees)
    THEN <<>>
    ELSE LET tree == kernel.range_trees[t]
         IN  (IF tree.prefix # "r" \/ kernel.inside_reduction
              THEN <<tree.prefix \o "numel">>
              ELSE <<>>) \o numel_argdefs_from(kernel, t + 1)

get_numel_argdefs(kernel) == numel_argdefs_from(kernel, 1)

GetNumelArgdefs ==
    /\ pf.op = "input"
    /\ pf.arg \in NumelKernels
    /\ pf' = [op |-> "get_numel_argdefs", arg |-> pf.arg, ret |-> get_numel_argdefs(pf.arg)]
    /\ UNCHANGED <<registry_vars, mk, call_vars, run_pc, run_i, other>>

\* A sub-kernel as the src_code of define_kernel sees it: its argument names,
\* its range trees (the pointwise ones, then the reduction one) and
\* inside_reduction.
GlueKernel(args, pointwise, inside_reduction) ==
    [arg_defs |-> args, call_args |-> args,
     range_trees |-> [t \in 1..(pointwise + 1) |->
                        [prefix |-> IF t > pointwise THEN "r"
                                    ELSE IF t = 1 THEN "x"
                                    ELSE IF t = 2 THEN "y" ELSE "z"]],
     inside_reduction |-> inside_reduction]
GlueKernels ==
    {GlueKernel(args, pointwise, inside_reduction) :
        args \in ArgLists, pointwise \in 1..(MaxTrees - 1), inside_reduction \in BOOLEAN}
GlueKernelLists == [1..2 -> GlueKernels]

\* The names in the `run` of src_code, lines 58-63: the parameters of run,
\* and for each closure call<j> the names it passes to kernels[j].run.
src_code_run(kernels) ==
    [params |-> <<"multi_kernel_call">> \o get_all_kernel_argdefs(kernels)
                  \o get_numel_argdefs(kernels[1]) \o <<"grid", "stream">>,
     call0  |-> <<"multi_kernel_call">> \o get_kernel_argdefs(kernels[1])
                  \o get_numel_argdefs(kernels[1]) \o <<"grid", "stream">>,
     call1  |-> <<"multi_kernel_call">> \o get_kernel_argdefs(kernels[2])
                  \o get_numel_argdefs(kernels[2]) \o <<"grid", "stream">>]

\* The numel arguments call_kernel passes at the call site, line 117: the
\* ones of kernels[0].
call_kernel_numels(kernels) == get_numel_argdefs(kernels[1])

DefineKernelSrcCode ==
    /\ pf.op = "input"
    /\ pf.arg \in GlueKernelLists
    /\ pf' = [op |-> "src_code", arg |-> pf.arg,
              ret |-> [run |-> src_code_run(pf.arg),
                       numels |-> call_kernel_numels(pf.arg)]]
    /\ UNCHANGED <<registry_vars, mk, call_vars, run_pc, run_i, other>>

----------------------------------------------------------------------------
(* MultiKernelState *)

\* kernel_names = tuple(k.kernel_name for k in kernels)
kernel_names_of(kernels) == [i \in DOMAIN kernels |-> kernels[i].kernel_name]

\* multi_kernel_name = f"multi_kernel_{kernel_names[0]}"
multi_kernel_name_of(kernel_names) == "multi_kernel_" \o kernel_names[1]

\* src_code defines the closures call0 and call1, closure j running
\* multi_kernel_call.kernels[j], and ends with
\*     multi_kernel_call.run_with_argless_kernels([call0, call1])
\* `closures` lists, for each closure defined, the index of the sub-kernel
\* it runs; `passed` lists the closures handed to run_with_argless_kernels.
src_code_of(kernels) ==
    [closures |-> <<0, 1>>, passed |-> <<0, 1>>]

\* The three splices into wrapper.header, as one block:
\*     <multi_kernel_name> = MultiKernelCall([<kernel_names>], <src_code>)
header_block(multi_kernel_name, kernel_names, src_code) ==
    [name |-> multi_kernel_name, kernels |-> kernel_names, src_code |-> src_code]

\* Mutant of define_kernel: the lookup of kernel_names in the table is missing.
define_kernel_no_lookup(kernels) ==
    LET kernel_names == kernel_names_of(kernels)
        multi_kernel_name == multi_kernel_name_of(kernel_names)
    IN  IF multi_kernel_name \in used_names
        THEN [table |-> subkernel_to_kernel_name, used |-> used_names, header |-> header,
              ret |-> None, raised |-> "AssertionError"]
        ELSE [table |-> (kernel_names :> multi_kernel_name) @@ subkernel_to_kernel_name,
              used |-> used_names \cup {multi_kernel_name},
              header |-> Append(header,
                                header_block(multi_kernel_name, kernel_names,
                                             src_code_of(kernels))),
              ret |-> multi_kernel_name,
              raised |-> None]

\* Mutant of define_kernel: the assert on used_names is missing.
define_kernel_no_assert(kernels) ==
    LET kernel_names == kernel_names_of(kernels)
        multi_kernel_name == multi_kernel_name_of(kernel_names)
    IN  IF kernel_names \in DOMAIN subkernel_to_kernel_name
        THEN [table |-> subkernel_to_kernel_name, used |-> used_names, header |-> header,
              ret |-> subkernel_to_kernel_name[kernel_names], raised |-> None]
        ELSE [table |-> (kernel_names :> multi_kernel_name) @@ subkernel_to_kernel_name,
              used |-> used_names \cup {multi_kernel_name},
              header |-> Append(header,
                                header_block(multi_kernel_name, kernel_names,
                                             src_code_of(kernels))),
              ret |-> multi_kernel_name,
              raised |-> None]

\* Mutant of define_kernel: the table entry is written before the assert.
define_kernel_store_before_assert(kernels) ==
    LET kernel_names == kernel_names_of(kernels)
        multi_kernel_name == multi_kernel_name_of(kernel_names)
    IN  IF kernel_names \in DOMAIN subkernel_to_kernel_name
        THEN [table |-> subkernel_to_kernel_name, used |-> used_names, header |-> header,
              ret |-> subkernel_to_kernel_name[kernel_names], raised |-> None]
        ELSE IF multi_kernel_name \in used_names
        THEN [table |-> (kernel_names :> multi_kernel_name) @@ subkernel_to_kernel_name,
              used |-> used_names, header |-> header,
              ret |-> None, raised |-> "AssertionError"]
        ELSE [table |-> (kernel_names :> multi_kernel_name) @@ subkernel_to_kernel_name,
              used |-> used_names \cup {multi_kernel_name},
              header |-> Append(header,
                                header_block(multi_kernel_name, kernel_names,
                                             src_code_of(kernels))),
              ret |-> multi_kernel_name,
              raised |-> None]

\* define_kernel(kernels): the registry after the call and what the call
\* returned (ret) or raised.
define_kernel(kernels) ==
    LET kernel_names == kernel_names_of(kernels)
        multi_kernel_name == multi_kernel_name_of(kernel_names)
        same == [table |-> subkernel_to_kernel_name, used |-> used_names,
                 header |-> header]
    IN  IF kernel_names \in DOMAIN subkernel_to_kernel_name
        THEN same @@ [ret |-> subkernel_to_kernel_name[kernel_names], raised |-> None]
        ELSE IF multi_kernel_name \in used_names
        THEN same @@ [ret |-> None, raised |-> "AssertionError"]
        ELSE [table |-> (kernel_names :> multi_kernel_name) @@ subkernel_to_kernel_name,
              used |-> used_names \cup {multi_kernel_name},
              header |-> Append(header,
                                header_block(multi_kernel_name, kernel_names,
                                             src_code_of(kernels))),
              ret |-> multi_kernel_name,
              raised |-> None]

(* MultiKernel *)

\* Mutant of MultiKernel__init__: the registration comes before the assert
\* on the size.
MultiKernel__init__register_first(kernels) ==
    LET r == define_kernel(kernels)
    IN  /\ subkernel_to_kernel_name' = r.table
        /\ used_names' = r.used
        /\ header' = r.header
        /\ mk' = [called |-> TRUE, kernels |-> kernels,
                   kernel_name |-> IF Len(kernels) >= 2 THEN r.ret ELSE None,
                   raised |-> IF Len(kernels) >= 2 THEN r.raised ELSE "AssertionError"]

\* MultiKernel.__init__(kernels): the assert on the size comes first, then
\* the registration.  mk records the argument, self.kernel_name and the
\* exception raised, if any.
MultiKernel__init__(kernels) ==
    IF ~(Len(kernels) >= 2)
    THEN /\ mk' = [called |-> TRUE, kernels |-> kernels, kernel_name |-> None,
                    raised |-> "AssertionError"]
         /\ UNCHANGED registry_vars
    ELSE LET r == define_kernel(kernels)
         IN  /\ subkernel_to_kernel_name' = r.table
             /\ used_names' = r.used
             /\ header' = r.header
             /\ mk' = [called |-> TRUE, kernels |-> kernels, kernel_name |-> r.ret,
                        raised |-> r.raised]

NewMultiKernel ==
    /\ \E kernels \in KernelLists : MultiKernel__init__(kernels)
    /\ UNCHANGED <<call_vars, aux_vars>>

----------------------------------------------------------------------------
(* MultiKernelCall *)

\* A sub-kernel whose parallel compilation may still be running: the
\* TritonFuture of the kernel named n.
TritonFuture(n) == [type |-> "TritonFuture", kernel_name |-> n]

isinstance_TritonFuture(kernel) == kernel.type = "TritonFuture"

\* TritonFuture.result(): the compiled kernel (the caller has waited for it).
result(future) == Kernel(future.kernel_name)

\* The lists MultiKernelCall is constructed with: position i holds the i-th
\* sub-kernel or the future of its compilation.
CallKernelLists ==
    UNION {[1..n -> {"kernel", "TritonFuture"}] : n \in 1..MaxGroupSize}

CallKernels(kinds) ==
    [i \in DOMAIN kinds |->
        IF kinds[i] = "kernel" THEN Kernel(KName(i)) ELSE TritonFuture(KName(i))]

\* MultiKernelCall.__init__(kernels, src_code)
MultiKernelCall__init__(kernels) ==
    IF ~(Len(kernels) >= 2)
    THEN /\ ctor' = [called |-> TRUE, kernels |-> kernels, raised |-> "AssertionError"]
         /\ UNCHANGED <<_kernels, picked_kernel, compile>>
    ELSE /\ _kernels' = kernels
         /\ picked_kernel' = NoneInt
         /\ compile' = [i \in DOMAIN kernels |->
                          IF isinstance_TritonFuture(kernels[i]) THEN "inflight" ELSE "done"]
         /\ ctor' = [called |-> TRUE, kernels |-> kernels, raised |-> None]

\* One MultiKernelCall is constructed per loaded multi-kernel definition.
NewMultiKernelCall ==
    /\ _kernels = <<>>
    /\ \E kinds \in CallKernelLists : MultiKernelCall__init__(CallKernels(kinds))
    /\ UNCHANGED <<aux_vars, registry_vars, mk, acc_pc, acc_i, acc_ret, rwak, npasses, ndecide>>

(* The parallel compilation behind a TritonFuture finishes or fails. *)
CompileDone ==
    /\ _kernels # <<>>
    /\ \E i \in DOMAIN compile :
          /\ compile[i] = "inflight"
          /\ compile' = [compile EXCEPT ![i] = "done"]
    /\ UNCHANGED <<aux_vars, registry_vars, mk, _kernels, picked_kernel, ctor, acc_pc, acc_i, acc_ret,
                   rwak, npasses, ndecide>>

CompileFail ==
    /\ _kernels # <<>>
    /\ \E i \in DOMAIN compile :
          /\ compile[i] = "inflight"
          /\ compile' = [compile EXCEPT ![i] = "failed"]
    /\ UNCHANGED <<aux_vars, registry_vars, mk, _kernels, picked_kernel, ctor, acc_pc, acc_i, acc_ret,
                   rwak, npasses, ndecide>>

(* The `kernels` property, one loop iteration per step: kernel.result()     *)
(* blocks while the compilation is in flight.                               *)
kernels_enter ==
    /\ _kernels # <<>>
    /\ acc_pc = "idle"
    /\ acc_pc' = "loop"
    /\ acc_i' = 0
    /\ acc_ret' = [status |-> "running", value |-> <<>>]
    /\ UNCHANGED <<aux_vars, registry_vars, mk, _kernels, picked_kernel, ctor, compile,
                   rwak, npasses, ndecide>>

\* Mutant of kernels_iter: the result of the future is not stored back.
kernels_iter_no_store ==
    /\ acc_pc = "loop"
    /\ acc_i < Len(_kernels)
    /\ LET i == acc_i
           kernel == _kernels[i + 1]
       IN  IF isinstance_TritonFuture(kernel)
           THEN /\ compile[i + 1] # "inflight"
                /\ IF compile[i + 1] = "done"
                   THEN /\ acc_i' = i + 1
                        /\ UNCHANGED <<_kernels, acc_pc, acc_ret>>
                   ELSE /\ acc_pc' = "idle"
                        /\ acc_ret' = [status |-> "raised", value |-> <<>>]
                        /\ UNCHANGED <<_kernels, acc_i>>
           ELSE /\ acc_i' = i + 1
                /\ UNCHANGED <<_kernels, acc_pc, acc_ret>>
    /\ UNCHANGED <<aux_vars, registry_vars, mk, picked_kernel, ctor, compile,
                   rwak, npasses, ndecide>>

kernels_iter ==
    /\ acc_pc = "loop"
    /\ acc_i < Len(_kernels)
    /\ LET i == acc_i
           kernel == _kernels[i + 1]
       IN  IF isinstance_TritonFuture(kernel)
           THEN /\ compile[i + 1] # "inflight"
                /\ IF compile[i + 1] = "done"
                   THEN /\ _kernels' = [_kernels EXCEPT ![i + 1] = result(kernel)]
                        /\ acc_i' = i + 1
                        /\ UNCHANGED <<acc_pc, acc_ret>>
                   ELSE /\ acc_pc' = "idle"
                        /\ acc_ret' = [status |-> "raised", value |-> <<>>]
                        /\ UNCHANGED <<_kernels, acc_i>>
           ELSE /\ acc_i' = i + 1
                /\ UNCHANGED <<_kernels, acc_pc, acc_ret>>
    /\ UNCHANGED <<aux_vars, registry_vars, mk, picked_kernel, ctor, compile,
                   rwak, npasses, ndecide>>

kernels_return ==
    /\ acc_pc = "loop"
    /\ acc_i = Len(_kernels)
    /\ acc_pc' = "idle"
    /\ acc_ret' = [status |-> "returned", value |-> _kernels]
    /\ UNCHANGED <<aux_vars, registry_vars, mk, _kernels, picked_kernel, ctor, compile, acc_i,
                   rwak, npasses, ndecide>>


(* run_with_argless_kernels *)

\* A kernel_call either raises or runs to completion, in a time of ms.
Raising == [raises |-> TRUE, ms |-> 0]
Running(ms) == [raises |-> FALSE, ms |-> ms]
CallBehaviours == {Raising} \cup {Running(ms) : ms \in 1..MaxDuration}

\* do_bench(kernel_call, rep=40, fast_flush=True): runs the call and returns
\* the time measured, or lets the call's exception through.
do_bench(kernel_call) ==
    IF kernel_call.raises
    THEN [raised |-> TRUE, ms |-> 0]
    ELSE [raised |-> FALSE, ms |-> kernel_call.ms]

\* The events of one call, in order: do_bench on kernel_calls[i], the store
\* to self.picked_kernel, the final kernel_calls[i]().
Ev(ev, i) == [ev |-> ev, i |-> i]
BenchEvents(k) == [j \in 1..k |-> Ev("do_bench", j - 1)]

\* kernel_calls[self.picked_kernel]()
dispatch(picked, kernel_calls, trace) ==
    LET p == picked[1]
    IN  IF p >= Len(kernel_calls)
        THEN [trace |-> trace, raised |-> "IndexError"]
        ELSE [trace |-> Append(trace, Ev("call", p)),
              raised |-> IF kernel_calls[p + 1].raises THEN "Exception" ELSE None]

\* Mutant of run_with_argless_kernels: `if not self.picked_kernel` in place of
\* `if self.picked_kernel is None`.
run_with_argless_kernels_falsy(kernel_calls) ==
    LET n == Len(kernel_calls)
        bench == [i \in 1..n |-> do_bench(kernel_calls[i])]
        failing == {i \in 1..n : bench[i].raised}
    IN  IF picked_kernel = NoneInt \/ picked_kernel = Int_(0)
        THEN IF failing # {}
             THEN \* the list comprehension stops at the first exception
                  [picked |-> picked_kernel, stored |-> FALSE,
                   timings |-> [i \in 1..(Min(failing) - 1) |-> bench[i].ms],
                   trace |-> BenchEvents(Min(failing)), raised |-> "Exception"]
             ELSE IF n = 0
             THEN \* min([]) raises
                  [picked |-> picked_kernel, stored |-> FALSE, timings |-> <<>>,
                   trace |-> <<>>, raised |-> "ValueError"]
             ELSE LET timings == [i \in 1..n |-> bench[i].ms]
                      picked == Int_(list_index(timings, list_min(timings)))
                      d == dispatch(picked, kernel_calls,
                                    Append(BenchEvents(n), Ev("store", picked[1])))
                  IN  [picked |-> picked, stored |-> TRUE, timings |-> timings,
                       trace |-> d.trace, raised |-> d.raised]
        ELSE LET d == dispatch(picked_kernel, kernel_calls, <<>>)
             IN  [picked |-> picked_kernel, stored |-> FALSE, timings |-> <<>>,
                  trace |-> d.trace, raised |-> d.raised]

\* Mutant of run_with_argless_kernels: the index found is not stored in
\* self.picked_kernel.
run_with_argless_kernels_no_store(kernel_calls) ==
    LET n == Len(kernel_calls)
        bench == [i \in 1..n |-> do_bench(kernel_calls[i])]
        failing == {i \in 1..n : bench[i].raised}
    IN  IF picked_kernel = NoneInt
        THEN IF failing # {}
             THEN \* the list comprehension stops at the first exception
                  [picked |-> picked_kernel, stored |-> FALSE,
                   timings |-> [i \in 1..(Min(failing) - 1) |-> bench[i].ms],
                   trace |-> BenchEvents(Min(failing)), raised |-> "Exception"]
             ELSE IF n = 0
             THEN \* min([]) raises
                  [picked |-> picked_kernel, stored |-> FALSE, timings |-> <<>>,
                   trace |-> <<>>, raised |-> "ValueError"]
             ELSE LET timings == [i \in 1..n |-> bench[i].ms]
                      picked == Int_(list_index(timings, list_min(timings)))
                      d == dispatch(picked, kernel_calls,
                                    Append(BenchEvents(n), Ev("store", picked[1])))
                  IN  [picked |-> picked_kernel, stored |-> FALSE, timings |-> timings,
                       trace |-> d.trace, raised |-> d.raised]
        ELSE LET d == dispatch(picked_kernel, kernel_calls, <<>>)
             IN  [picked |-> picked_kernel, stored |-> FALSE, timings |-> <<>>,
                  trace |-> d.trace, raised |-> d.raised]

\* Mutant of run_with_argless_kernels: a kernel_call that raises under do_bench
\* is left out and the others are compared.
run_with_argless_kernels_skip_failed(kernel_calls) ==
    LET n == Len(kernel_calls)
        bench == [i \in 1..n |-> do_bench(kernel_calls[i])]
        good == {i \in 1..n : ~bench[i].raised}
    IN  IF picked_kernel = NoneInt
        THEN IF good = {}
             THEN [picked |-> picked_kernel, stored |-> FALSE, timings |-> <<>>,
                   trace |-> BenchEvents(n), raised |-> "ValueError"]
             ELSE LET best == Min({bench[i].ms : i \in good})
                      picked == Int_(Min({i \in good : bench[i].ms = best}) - 1)
                      d == dispatch(picked, kernel_calls,
                                    Append(BenchEvents(n), Ev("store", picked[1])))
                  IN  [picked |-> picked, stored |-> TRUE,
                       timings |-> [i \in 1..n |-> bench[i].ms],
                       trace |-> d.trace, raised |-> d.raised]
        ELSE LET d == dispatch(picked_kernel, kernel_calls, <<>>)
             IN  [picked |-> picked_kernel, stored |-> FALSE, timings |-> <<>>,
                  trace |-> d.trace, raised |-> d.raised]

\* run_with_argless_kernels(kernel_calls): self.picked_kernel after the call,
\* whether line 166 stored it, the timings list, the events and the exception
\* raised.
run_with_argless_kernels(kernel_calls) ==
    LET n == Len(kernel_calls)
        bench == [i \in 1..n |-> do_bench(kernel_calls[i])]
        failing == {i \in 1..n : bench[i].raised}
    IN  IF picked_kernel = NoneInt
        THEN IF failing # {}
             THEN \* the list comprehension stops at the first exception
                  [picked |-> picked_kernel, stored |-> FALSE,
                   timings |-> [i \in 1..(Min(failing) - 1) |-> bench[i].ms],
                   trace |-> BenchEvents(Min(failing)), raised |-> "Exception"]
             ELSE IF n = 0
             THEN \* min([]) raises
                  [picked |-> picked_kernel, stored |-> FALSE, timings |-> <<>>,
                   trace |-> <<>>, raised |-> "ValueError"]
             ELSE LET timings == [i \in 1..n |-> bench[i].ms]
                      picked == Int_(list_index(timings, list_min(timings)))
                      d == dispatch(picked, kernel_calls,
                                    Append(BenchEvents(n), Ev("store", picked[1])))
                  IN  [picked |-> picked, stored |-> TRUE, timings |-> timings,
                       trace |-> d.trace, raised |-> d.raised]
        ELSE LET d == dispatch(picked_kernel, kernel_calls, <<>>)
             IN  [picked |-> picked_kernel, stored |-> FALSE, timings |-> <<>>,
                  trace |-> d.trace, raised |-> d.raised]

RunWithArglessKernels ==
    /\ _kernels # <<>>
    /\ acc_pc = "idle"
    /\ run_pc = "idle"
    /\ picked_kernel = NoneInt => npasses < MaxPasses
    /\ \E n \in 0..MaxCalls :
         \E kernel_calls \in [1..n -> CallBehaviours] :
            LET r == run_with_argless_kernels(kernel_calls)
            IN  /\ picked_kernel' = r.picked
                /\ rwak' = [called |-> TRUE, kernel_calls |-> kernel_calls,
                            timings |-> r.timings, trace |-> r.trace, raised |-> r.raised]
                /\ npasses' = IF picked_kernel = NoneInt THEN npasses + 1 ELSE npasses
                /\ ndecide' = IF r.stored THEN ndecide + 1 ELSE ndecide
    /\ UNCHANGED <<aux_vars, registry_vars, mk, _kernels, ctor, compile, acc_pc, acc_i, acc_ret>>

(* MultiKernelCall.run: the `run` of the loaded src_code *)

\* Mutant of kernels_get: a future whose compilation failed is left in place
\* and the loop goes on.
RECURSIVE kernels_get_skip_failed(_, _, _)
kernels_get_skip_failed(ks, comp, i) ==
    IF i > Len(ks)
    THEN [_kernels |-> ks, status |-> "returned"]
    ELSE IF isinstance_TritonFuture(ks[i])
    THEN IF comp[i] = "inflight"
         THEN [_kernels |-> ks, status |-> "blocked"]
         ELSE IF comp[i] = "failed"
         THEN kernels_get_skip_failed(ks, comp, i + 1)
         ELSE kernels_get_skip_failed([ks EXCEPT ![i] = result(ks[i])], comp, i + 1)
    ELSE kernels_get_skip_failed(ks, comp, i + 1)

\* The `kernels` property taken in one piece, from list position i on: the
\* list as the loop leaves it, and whether the property returned, raised
\* (result() of a failed compilation) or is blocked in result().
RECURSIVE kernels_get(_, _, _)
kernels_get(ks, comp, i) ==
    IF i > Len(ks)
    THEN [_kernels |-> ks, status |-> "returned"]
    ELSE IF isinstance_TritonFuture(ks[i])
    THEN IF comp[i] = "inflight"
         THEN [_kernels |-> ks, status |-> "blocked"]
         ELSE IF comp[i] = "failed"
         THEN [_kernels |-> ks, status |-> "raised"]
         ELSE kernels_get([ks EXCEPT ![i] = result(ks[i])], comp, i + 1)
    ELSE kernels_get(ks, comp, i + 1)

\* The closure call<j> of src_code: multi_kernel_call.kernels[j].run(...).
\* It raises what the `kernels` property raises, and otherwise behaves as
\* the run of sub-kernel j does.
closure(j, got, kernel_runs) ==
    IF got.status = "raised" THEN Raising ELSE kernel_runs[j + 1]

\* MultiKernelCall.run(*args): self._run(self, *args), the run of src_code,
\* which defines the closures and hands them to run_with_argless_kernels.
\* kernel_runs[j] is how the run of sub-kernel j behaves.  The step is taken
\* once no compilation the closures wait for is in flight.
Run ==
    /\ _kernels # <<>>
    /\ acc_pc = "idle"
    /\ run_pc = "idle"
    /\ picked_kernel = NoneInt => npasses < MaxPasses
    /\ LET got == kernels_get(_kernels, compile, 1)
           src_code == src_code_of(_kernels)
       IN  /\ got.status # "blocked"
           /\ \E kernel_runs \in [1..Len(src_code.closures) -> CallBehaviours] :
                LET kernel_calls == [c \in DOMAIN src_code.passed |->
                                       closure(src_code.closures[src_code.passed[c] + 1],
                                               got, kernel_runs)]
                    r == run_with_argless_kernels(kernel_calls)
                IN  /\ _kernels' = got._kernels
                    /\ picked_kernel' = r.picked
                    /\ rwak' = [called |-> TRUE, kernel_calls |-> kernel_calls,
                                timings |-> r.timings, trace |-> r.trace,
                                raised |-> r.raised]
                    /\ npasses' = IF picked_kernel = NoneInt THEN npasses + 1 ELSE npasses
                    /\ ndecide' = IF r.stored THEN ndecide + 1 ELSE ndecide
    /\ UNCHANGED <<aux_vars, registry_vars, mk, ctor, compile, acc_pc, acc_i, acc_ret>>

(* Two MultiKernelCall objects.  The variables _kernels, picked_kernel and    *)
(* compile (with the counters npasses, ndecide) are the attributes of the    *)
(* object `self` is bound to; `other` holds the attributes of the second     *)
(* object and its number, 1 or 2.                                            *)

\* Mutant of Switch: picked_kernel is one attribute for all objects.
Switch_shared_picked ==
    /\ other._kernels # <<>>
    /\ acc_pc = "idle"
    /\ run_pc = "idle"
    /\ other' = [id |-> 3 - other.id, _kernels |-> _kernels,
                 picked_kernel |-> picked_kernel, compile |-> compile,
                 npasses |-> npasses, ndecide |-> ndecide]
    /\ _kernels' = other._kernels
    /\ picked_kernel' = picked_kernel
    /\ compile' = other.compile
    /\ npasses' = other.npasses
    /\ ndecide' = other.ndecide
    /\ UNCHANGED <<registry_vars, mk, ctor, acc_pc, acc_i, acc_ret, rwak, run_pc, run_i, pf>>

\* The next method call is made on the second object: every attribute set
\* in __init__ (lines 136-138) belongs to the object it was set on.
Switch ==
    /\ other._kernels # <<>>
    /\ acc_pc = "idle"
    /\ run_pc = "idle"
    /\ other' = [id |-> 3 - other.id, _kernels |-> _kernels,
                 picked_kernel |-> picked_kernel, compile |-> compile,
                 npasses |-> npasses, ndecide |-> ndecide]
    /\ _kernels' = other._kernels
    /\ picked_kernel' = other.picked_kernel
    /\ compile' = other.compile
    /\ npasses' = other.npasses
    /\ ndecide' = other.ndecide
    /\ UNCHANGED <<registry_vars, mk, ctor, acc_pc, acc_i, acc_ret, rwak, run_pc, run_i, pf>>

(* run_with_argless_kernels, statement by statement *)

\* A kernel_call that never returns.
Hanging == [raises |-> FALSE, ms |-> 0]
StepBehaviours == CallBehaviours \cup {Hanging}

\* Mutant of kernel_returns: a call that hangs is given up after a timeout.
kernel_returns_timeout(kernel_call) == TRUE

\* Control comes back from kernel_call(): there is no timeout or cancellation
\* around it in lines 162-167.
kernel_returns(kernel_call) == kernel_call # Hanging

\* Mutant of comprehension_more: only kernel_calls[0] is benchmarked.
comprehension_more_first_only(timings, kernel_calls) ==
    Len(timings) < 1 /\ Len(kernel_calls) >= 1

\* The list comprehension of lines 162-165 has another kernel_call to take.
comprehension_more(timings, kernel_calls) == Len(timings) < Len(kernel_calls)

\* Entry and line 161.  run_pc is the statement the call is at.
rwak_begin ==
    /\ _kernels # <<>>
    /\ acc_pc = "idle"
    /\ run_pc = "idle"
    /\ picked_kernel = NoneInt => npasses < MaxPasses
    /\ \E n \in 0..MaxCalls :
         \E kernel_calls \in [1..n -> StepBehaviours] :
            rwak' = [called |-> TRUE, kernel_calls |-> kernel_calls, timings |-> <<>>,
                     trace |-> <<>>, raised |-> None]
    /\ run_pc' = IF picked_kernel = NoneInt THEN "comprehension" ELSE "dispatch"
    /\ run_i' = 0
    /\ npasses' = IF picked_kernel = NoneInt THEN npasses + 1 ELSE npasses
    /\ UNCHANGED <<registry_vars, mk, _kernels, picked_kernel, ctor, compile, acc_pc, acc_i,
                   acc_ret, ndecide, other, pf>>

\* Lines 163-165: do_bench is entered on the next kernel_call.
rwak_do_bench_enter ==
    /\ run_pc = "comprehension"
    /\ comprehension_more(rwak.timings, rwak.kernel_calls)
    /\ rwak' = [rwak EXCEPT !.trace = Append(@, Ev("do_bench", run_i))]
    /\ run_pc' = "do_bench"
    /\ UNCHANGED <<registry_vars, mk, _kernels, picked_kernel, ctor, compile, acc_pc, acc_i,
                   acc_ret, npasses, ndecide, run_i, other, pf>>

\* do_bench returns the time measured, or the call's exception ends
\* run_with_argless_kernels.
rwak_do_bench_return ==
    /\ run_pc = "do_bench"
    /\ kernel_returns(rwak.kernel_calls[run_i + 1])
    /\ LET b == do_bench(rwak.kernel_calls[run_i + 1])
       IN  IF b.raised
           THEN /\ rwak' = [rwak EXCEPT !.raised = "Exception"]
                /\ run_pc' = "idle"
                /\ run_i' = run_i
           ELSE /\ rwak' = [rwak EXCEPT !.timings = Append(@, b.ms)]
                /\ run_pc' = "comprehension"
                /\ run_i' = run_i + 1
    /\ UNCHANGED <<registry_vars, mk, _kernels, picked_kernel, ctor, compile, acc_pc, acc_i,
                   acc_ret, npasses, ndecide, other, pf>>

\* Line 166: self.picked_kernel = timings.index(min(timings)).
rwak_store ==
    /\ run_pc = "comprehension"
    /\ ~comprehension_more(rwak.timings, rwak.kernel_calls)
    /\ IF rwak.timings = <<>>
       THEN \* min([]) raises
            /\ rwak' = [rwak EXCEPT !.raised = "ValueError"]
            /\ run_pc' = "idle"
            /\ UNCHANGED <<picked_kernel, ndecide>>
       ELSE LET picked == Int_(list_index(rwak.timings, list_min(rwak.timings)))
            IN  /\ picked_kernel' = picked
                /\ rwak' = [rwak EXCEPT !.trace = Append(@, Ev("store", picked[1]))]
                /\ run_pc' = "dispatch"
                /\ ndecide' = ndecide + 1
    /\ UNCHANGED <<registry_vars, mk, _kernels, ctor, compile, acc_pc, acc_i, acc_ret,
                   npasses, run_i, other, pf>>

\* Line 167: kernel_calls[self.picked_kernel] is looked up and entered.
rwak_call_enter ==
    /\ run_pc = "dispatch"
    /\ IF picked_kernel[1] >= Len(rwak.kernel_calls)
       THEN /\ rwak' = [rwak EXCEPT !.raised = "IndexError"]
            /\ run_pc' = "idle"
       ELSE /\ rwak' = [rwak EXCEPT !.trace = Append(@, Ev("call", picked_kernel[1]))]
            /\ run_pc' = "call"
    /\ UNCHANGED <<registry_vars, mk, _kernels, picked_kernel, ctor, compile, acc_pc, acc_i,
                   acc_ret, npasses, ndecide, run_i, other, pf>>

\* The call of line 167 returns or raises, and with it run_with_argless_kernels.
rwak_call_return ==
    /\ run_pc = "call"
    /\ kernel_returns(rwak.kernel_calls[picked_kernel[1] + 1])
    /\ rwak' = [rwak EXCEPT !.raised =
                  IF rwak.kernel_calls[picked_kernel[1] + 1].raises
                  THEN "Exception" ELSE None]
    /\ run_pc' = "idle"
    /\ UNCHANGED <<registry_vars, mk, _kernels, picked_kernel, ctor, compile, acc_pc, acc_i,
                   acc_ret, npasses, ndecide, run_i, other, pf>>

----------------------------------------------------------------------------
(* Specifications *)

\* The attributes of a MultiKernelCall that does not exist yet.
NoInstance == [_kernels |-> <<>>, picked_kernel |-> NoneInt]

Init ==
    /\ subkernel_to_kernel_name = <<>>
    /\ used_names = {}
    /\ header = <<>>
    /\ mk = [called |-> FALSE, kernels |-> <<>>, kernel_name |-> None, raised |-> None]
    /\ _kernels = <<>>
    /\ picked_kernel = NoneInt
    /\ ctor = [called |-> FALSE, kernels |-> <<>>, raised |-> None]
    /\ compile = <<>>
    /\ acc_pc = "idle"
    /\ acc_i = 0
    /\ acc_ret = [status |-> "none", value |-> <<>>]
    /\ rwak = [called |-> FALSE, kernel_calls |-> <<>>, timings |-> <<>>, trace |-> <<>>,
               raised |-> None]
    /\ npasses = 0
    /\ ndecide = 0
    /\ run_pc = "idle"
    /\ run_i = 0
    /\ other = NoInstance
    /\ pf = [op |-> "none", arg |-> <<>>, ret |-> <<>>]

\* Code generation: MultiKernel objects are created against one MultiKernelState.
NextRegistry == NewMultiKernel
SpecRegistry == Init /\ [][NextRegistry]_vars

\* The two constructors.
NextCtor == NewMultiKernel \/ NewMultiKernelCall
SpecCtor == Init /\ [][NextCtor]_vars

\* Run time: a MultiKernelCall as constructed for two compiled sub-kernels, and
\* the calls of run_with_argless_kernels on it.
InitCall ==
    /\ subkernel_to_kernel_name = <<>>
    /\ used_names = {}
    /\ header = <<>>
    /\ mk = [called |-> FALSE, kernels |-> <<>>, kernel_name |-> None, raised |-> None]
    /\ _kernels = <<Kernel(KName(1)), Kernel(KName(2))>>
    /\ picked_kernel = NoneInt
    /\ ctor = [called |-> TRUE, kernels |-> _kernels, raised |-> None]
    /\ compile = <<"done", "done">>
    /\ acc_pc = "idle"
    /\ acc_i = 0
    /\ acc_ret = [status |-> "none", value |-> <<>>]
    /\ rwak = [called |-> FALSE, kernel_calls |-> <<>>, timings |-> <<>>, trace |-> <<>>,
               raised |-> None]
    /\ npasses = 0
    /\ ndecide = 0
    /\ run_pc = "idle"
    /\ run_i = 0
    /\ other = NoInstance
    /\ pf = [op |-> "none", arg |-> <<>>, ret |-> <<>>]

NextCall == RunWithArglessKernels
SpecCall == InitCall /\ [][NextCall]_vars

\* Run time: one MultiKernelCall, the compilations behind its futures and the
\* `kernels` property.
NextKernels ==
    \/ NewMultiKernelCall
    \/ CompileDone
    \/ CompileFail
    \/ kernels_enter
    \/ kernels_iter
    \/ kernels_return
SpecKernels == Init /\ [][NextKernels]_vars

\* Run time: one MultiKernelCall, the compilations behind its futures, the
\* `kernels` property and run.
NextRun == NextKernels \/ Run
SpecRun == Init /\ [][NextRun]_vars

\* Two MultiKernelCall objects as two header blocks construct them, each
\* from a list literal of its own, with one compilation in flight each.
InitTwo ==
    /\ subkernel_to_kernel_name = <<>>
    /\ used_names = {}
    /\ header = <<>>
    /\ mk = [called |-> FALSE, kernels |-> <<>>, kernel_name |-> None, raised |-> None]
    /\ _kernels = <<TritonFuture(KName(1)), Kernel(KName(2))>>
    /\ picked_kernel = NoneInt
    /\ ctor = [called |-> TRUE, kernels |-> <<Kernel(KName(2)), TritonFuture(KName(3))>>,
               raised |-> None]
    /\ compile = <<"inflight", "done">>
    /\ acc_pc = "idle"
    /\ acc_i = 0
    /\ acc_ret = [status |-> "none", value |-> <<>>]
    /\ rwak = [called |-> FALSE, kernel_calls |-> <<>>, timings |-> <<>>, trace |-> <<>>,
               raised |-> None]
    /\ npasses = 0
    /\ ndecide = 0
    /\ run_pc = "idle"
    /\ run_i = 0
    /\ other = [id |-> 2, _kernels |-> <<Kernel(KName(2)), TritonFuture(KName(3))>>,
                picked_kernel |-> NoneInt, compile |-> <<"done", "inflight">>,
                npasses |-> 0, ndecide |-> 0]
    /\ pf = [op |-> "none", arg |-> <<>>, ret |-> <<>>]

NextTwo ==
    \/ Switch
    \/ CompileDone
    \/ CompileFail
    \/ kernels_enter
    \/ kernels_iter
    \/ kernels_return
    \/ Run
SpecTwo == InitTwo /\ [][NextTwo]_vars

\* One constructed MultiKernelCall; run_with_argless_kernels advances a
\* statement at a time.
NextSteps ==
    \/ rwak_begin
    \/ rwak_do_bench_enter
    \/ rwak_do_bench_return
    \/ rwak_store
    \/ rwak_call_enter
    \/ rwak_call_return
SpecSteps == InitCall /\ [][NextSteps]_vars

\* A call that was entered goes on to its next statement; a kernel_call that
\* returns does so eventually.
FairSteps ==
    /\ SpecSteps
    /\ WF_vars(rwak_do_bench_enter)
    /\ WF_vars(rwak_do_bench_return)
    /\ WF_vars(rwak_store)
    /\ WF_vars(rwak_call_enter)
    /\ WF_vars(rwak_call_return)

\* A module-level function is about to be applied to one of `inputs`; no
\* object exists.
InitInput(inputs) ==
    /\ subkernel_to_kernel_name = <<>>
    /\ used_names = {}
    /\ header = <<>>
    /\ mk = [called |-> FALSE, kernels |-> <<>>, kernel_name |-> None, raised |-> None]
    /\ _kernels = <<>>
    /\ picked_kernel = NoneInt
    /\ ctor = [called |-> FALSE, kernels |-> <<>>, raised |-> None]
    /\ compile = <<>>
    /\ acc_pc = "idle"
    /\ acc_i = 0
    /\ acc_ret = [status |-> "none", value |-> <<>>]
    /\ rwak = [called |-> FALSE, kernel_calls |-> <<>>, timings |-> <<>>, trace |-> <<>>,
               raised |-> None]
    /\ npasses = 0
    /\ ndecide = 0
    /\ run_pc = "idle"
    /\ run_i = 0
    /\ other = NoInstance
    /\ pf \in {[op |-> "input", arg |-> x, ret |-> <<>>] : x \in inputs}

\* The argument unions, on every list of sub-kernels within the bounds.
InitArgs == InitInput(ArgKernelLists)
NextArgs == GetAllKernelArgdefs \/ CallKernel
SpecArgs == InitArgs /\ [][NextArgs]_vars

\* get_numel_argdefs on every sub-kernel within the bounds.
InitNumel == InitInput(NumelKernels)
NextNumel == GetNumelArgdefs
SpecNumel == InitNumel /\ [][NextNumel]_vars

\* The src_code of define_kernel on every pair of sub-kernels within the
\* bounds.
InitGlue == InitInput(GlueKernelLists)
NextGlue == DefineKernelSrcCode
SpecGlue == InitGlue /\ [][NextGlue]_vars

Next == NextCtor \/ NextCall \/ NextRun \/ NextArgs \/ NextSteps \/ NextNumel \/ NextGlue \/ NextTwo
Spec == Init /\ [][Next]_vars

----------------------------------------------------------------------------
(* Claims *)

\* A step in which run_with_argless_kernels was called.
RunStep == <<rwak, picked_kernel, npasses>>' # <<rwak, picked_kernel, npasses>>

IsStore(e) == e.ev = "store"
IsBench(e) == e.ev = "do_bench"
IsCall(e) == e.ev = "call"
Events(trace) == {trace[j] : j \in DOMAIN trace}

\* C1 (dedup): constructing a group whose tuple of sub-kernel names is already
\* in the table returns the name stored for it and raises nothing, and leaves
\* the table, the used names and the header exactly as they were.
C1_Dedup ==
    [][(mk'.called /\ Len(mk'.kernels) >= 2
          /\ kernel_names_of(mk'.kernels) \in DOMAIN subkernel_to_kernel_name)
        => /\ mk'.raised = None
           /\ mk'.kernel_name = subkernel_to_kernel_name[kernel_names_of(mk'.kernels)]
           /\ UNCHANGED registry_vars]_vars

\* The last construction returned the name of the first block of the header
\* although a later block exists: it was a repeated registration.
C1_Witness ==
    /\ mk.called /\ mk.raised = None
    /\ Len(header) >= 2
    /\ mk.kernel_name = header[1].name
    /\ kernel_names_of(mk.kernels) = header[1].kernels

\* C2 (selection permanence): once picked_kernel holds an index it keeps that
\* value, and every later call of run_with_argless_kernels calls do_bench on
\* nothing and invokes nothing but kernel_calls[picked_kernel].
C2_SelectionPermanence ==
    [][picked_kernel # NoneInt
        => /\ picked_kernel' = picked_kernel
           /\ RunStep
                => \A e \in Events(rwak'.trace) : e = Ev("call", picked_kernel[1])]_vars

\* A call made after the decision has dispatched to the picked index.
C2_Witness ==
    /\ picked_kernel # NoneInt
    /\ rwak.called
    /\ Len(rwak.kernel_calls) >= 2
    /\ rwak.trace = <<Ev("call", picked_kernel[1])>>

\* C3 as stated: by the end of the first call the decision has been made, and
\* over the life of the object the benchmarking pass is entered exactly once
\* and picked_kernel is stored exactly once.
C3_Original ==
    rwak.called => (picked_kernel # NoneInt /\ ndecide = 1 /\ npasses = 1)

\* C3 (amended): picked_kernel is stored at most once, by the first call whose
\* benchmarking pass completes (a non-empty list, no do_bench raising); that
\* call runs do_bench once on each kernel_call in list order, then stores the
\* index, then invokes the winner.  A call made while picked_kernel is None
\* whose pass does not complete raises and leaves picked_kernel None, so the
\* next call enters the pass again.  After the store no call enters the pass.
C3_OneTimeBenchmarking ==
    /\ [](ndecide <= 1 /\ (ndecide = 1 <=> picked_kernel # NoneInt))
    /\ [][RunStep
           => LET calls == rwak'.kernel_calls
                  n == Len(calls)
                  completes == n > 0 /\ \A i \in 1..n : ~calls[i].raises
              IN  /\ (picked_kernel = NoneInt /\ completes)
                       => /\ picked_kernel' # NoneInt
                          /\ rwak'.trace = [j \in 1..n |-> Ev("do_bench", j - 1)]
                                             \o <<Ev("store", picked_kernel'[1]),
                                                  Ev("call", picked_kernel'[1])>>
                  /\ (picked_kernel = NoneInt /\ ~completes)
                       => /\ picked_kernel' = NoneInt
                          /\ rwak'.raised # None
                          /\ npasses' = npasses + 1
                  /\ picked_kernel # NoneInt
                       => /\ npasses' = npasses
                          /\ ndecide' = ndecide
                          /\ \A e \in Events(rwak'.trace) : ~IsBench(e)]_vars

\* The decision was made by a call that followed a failed pass.
C3_Witness ==
    /\ npasses >= 2
    /\ ndecide = 1
    /\ picked_kernel # NoneInt
    /\ \E e \in Events(rwak.trace) : IsStore(e)

\* C4 (stable argmin): the index stored by a call is the smallest index whose
\* timing is the minimum of the timings measured in that call; with all
\* timings equal it is 0.
C4_StableArgmin ==
    (rwak.called /\ \E e \in Events(rwak.trace) : IsStore(e))
    => LET t == rwak.timings
       IN  /\ picked_kernel # NoneInt
           /\ Len(t) = Len(rwak.kernel_calls)
           /\ picked_kernel[1] \in 0..(Len(t) - 1)
           /\ \A i \in 1..Len(t) :
                 /\ t[picked_kernel[1] + 1] <= t[i]
                 /\ i < picked_kernel[1] + 1 => t[i] > t[picked_kernel[1] + 1]
           /\ (\A i, j \in 1..Len(t) : t[i] = t[j]) => picked_kernel = Int_(0)

\* The minimum is measured twice, first at index 1, and index 1 is stored.
C4_Witness ==
    /\ rwak.called
    /\ \E e \in Events(rwak.trace) : IsStore(e)
    /\ Len(rwak.timings) = 3
    /\ rwak.timings[1] > rwak.timings[2]
    /\ rwak.timings[2] = rwak.timings[3]
    /\ picked_kernel = Int_(1)

\* C5 (benchmark failure): a call made while picked_kernel is None in which
\* some kernel_call raises under do_bench raises that exception, leaves
\* picked_kernel None, and neither stores an index nor invokes a winner.
C5_BenchmarkFailure ==
    [][(RunStep /\ picked_kernel = NoneInt
          /\ \E i \in DOMAIN rwak'.kernel_calls : rwak'.kernel_calls[i].raises)
        => /\ rwak'.raised = "Exception"
           /\ picked_kernel' = NoneInt
           /\ \A e \in Events(rwak'.trace) : IsBench(e)]_vars

\* The second candidate raised after the first had been timed.
C5_Witness ==
    /\ rwak.called
    /\ Len(rwak.kernel_calls) >= 2
    /\ ~rwak.kernel_calls[1].raises /\ rwak.kernel_calls[2].raises
    /\ rwak.raised = "Exception"
    /\ rwak.trace = BenchEvents(2)
    /\ picked_kernel = NoneInt

\* Two tuples hold the same names in a different order.
Reordering(a, b) ==
    /\ a # b
    /\ Len(a) = Len(b)
    /\ {a[i] : i \in DOMAIN a} = {b[i] : i \in DOMAIN b}

\* C6 (no name collision): no construction of a group of two or more
\* sub-kernels ever fails the assertion that the synthesized name is unused.
C6_NoNameCollision ==
    ~(mk.called /\ Len(mk.kernels) >= 2 /\ mk.raised = "AssertionError")

\* C7 (order-sensitive identity): constructing a group whose names are a
\* reordering of a registered tuple, and not themselves registered, succeeds,
\* returns a name no registered tuple has, and appends one block of its own.
C7_OrderSensitive ==
    [][(mk'.called /\ Len(mk'.kernels) >= 2
          /\ kernel_names_of(mk'.kernels) \notin DOMAIN subkernel_to_kernel_name
          /\ \E key \in DOMAIN subkernel_to_kernel_name :
                Reordering(key, kernel_names_of(mk'.kernels)))
        => /\ mk'.raised = None
           /\ \A key \in DOMAIN subkernel_to_kernel_name :
                 subkernel_to_kernel_name[key] # mk'.kernel_name
           /\ Len(header') = Len(header) + 1
           /\ header'[Len(header')].name = mk'.kernel_name
           /\ DOMAIN subkernel_to_kernel_name' =
                 DOMAIN subkernel_to_kernel_name \cup {kernel_names_of(mk'.kernels)}]_vars

\* C8 (invalid group size): MultiKernel(kernels) and MultiKernelCall(kernels,
\* src) with fewer than two kernels raise AssertionError and change nothing:
\* the table, the used names and the header are as before, and no
\* MultiKernelCall state (_kernels, picked_kernel) comes to exist.
C8_InvalidGroupSize ==
    /\ [][(mk' # mk /\ Len(mk'.kernels) < 2)
            => (mk'.raised = "AssertionError" /\ UNCHANGED registry_vars)]_vars
    /\ [][(ctor' # ctor /\ Len(ctor'.kernels) < 2)
            => /\ ctor'.raised = "AssertionError"
               /\ _kernels' = <<>>
               /\ UNCHANGED <<_kernels, picked_kernel, compile, registry_vars>>]_vars

\* Both constructors have refused a list of one kernel, MultiKernel after
\* other groups had been registered.
C8_Witness ==
    /\ mk.called /\ Len(mk.kernels) = 1 /\ mk.raised = "AssertionError"
    /\ Len(header) >= 1
    /\ ctor.called /\ Len(ctor.kernels) = 1 /\ ctor.raised = "AssertionError"
    /\ _kernels = <<>>

\* C9 (glue covers every variant): every block of the header, for its N
\* sub-kernels, defines N closures, the i-th running sub-kernel i, and hands
\* all N, in order, to run_with_argless_kernels.
C9_GlueCoversAll ==
    \A b \in DOMAIN header :
        LET N == Len(header[b].kernels)
        IN  /\ header[b].src_code.closures = [i \in 1..N |-> i - 1]
            /\ header[b].src_code.passed = [i \in 1..N |-> i - 1]

\* C10 (future resolution): when the `kernels` property has returned, the list
\* it returned is self._kernels, as long as the list given to the constructor,
\* holding at every index the compiled kernel of the entry given there and no
\* TritonFuture, and no compilation is in flight; and a list without futures
\* is never changed again, so a second access returns the same list.
C10_FutureResolution ==
    /\ [](acc_ret.status = "returned"
            => /\ acc_ret.value = _kernels
               /\ Len(_kernels) = Len(ctor.kernels)
               /\ \A i \in DOMAIN _kernels :
                     /\ _kernels[i] = [type |-> "kernel",
                                       kernel_name |-> ctor.kernels[i].kernel_name]
                     /\ compile[i] = "done")
    /\ [][(_kernels # <<>> /\ \A i \in DOMAIN _kernels : _kernels[i].type = "kernel")
            => _kernels' = _kernels]_vars

\* The property has returned for a list that was constructed with a future
\* after a compiled kernel.
C10_Witness ==
    /\ acc_ret.status = "returned"
    /\ Len(ctor.kernels) >= 2
    /\ ctor.kernels[1].type = "kernel"
    /\ ctor.kernels[2].type = "TritonFuture"
    /\ _kernels[2].type = "kernel"

\* Some stored sub-kernel is a future whose compilation has failed.
HasFailedFuture ==
    \E i \in DOMAIN _kernels : _kernels[i].type = "TritonFuture" /\ compile[i] = "failed"

\* C11 (compilation failure): while a stored future's compilation has failed,
\* the `kernels` property ends only by raising, changing neither the list nor
\* picked_kernel; and a run made while picked_kernel is None raises, stores
\* no index and invokes no winner.
C11_CompilationFailure ==
    /\ [][(HasFailedFuture /\ acc_pc = "loop" /\ acc_pc' = "idle")
            => /\ acc_ret'.status = "raised"
               /\ picked_kernel' = picked_kernel
               /\ _kernels' = _kernels]_vars
    /\ [][(HasFailedFuture /\ RunStep /\ picked_kernel = NoneInt)
            => /\ rwak'.raised = "Exception"
               /\ picked_kernel' = NoneInt
               /\ \A e \in Events(rwak'.trace) : IsBench(e)]_vars

\* A run has raised with the second compilation failed, after the first
\* future had been replaced by its kernel; nothing is picked.
C11_Witness ==
    /\ rwak.called /\ rwak.raised = "Exception"
    /\ picked_kernel = NoneInt
    /\ Len(_kernels) >= 2
    /\ ctor.kernels[1].type = "TritonFuture" /\ _kernels[1].type = "kernel"
    /\ _kernels[2].type = "TritonFuture" /\ compile[2] = "failed"

\* The place of the first occurrence of name x in a list of argument lists,
\* lists scanned in order and each list in its own order.
FirstPlace(lists, x) ==
    LET k == Min({k \in DOMAIN lists : \E i \in DOMAIN lists[k] : lists[k][i] = x})
        i == Min({i \in DOMAIN lists[k] : lists[k][i] = x})
    IN  k * (MaxArgs + 1) + i

\* `union` holds every name of `lists` once, in the order of first occurrence.
IsFirstOccurrenceUnion(union, lists) ==
    /\ \A a, b \in DOMAIN union : a # b => union[a] # union[b]
    /\ {union[a] : a \in DOMAIN union}
         = UNION {{lists[k][i] : i \in DOMAIN lists[k]} : k \in DOMAIN lists}
    /\ \A a, b \in DOMAIN union :
          a < b => FirstPlace(lists, union[a]) < FirstPlace(lists, union[b])

\* C12 (argument union): get_all_kernel_argdefs returns every argument name
\* of the sub-kernels once, in order of first occurrence; the result is the
\* same with the first sub-kernel appended again; and call_kernel builds
\* all_call_args from the call arguments in the same way.
C12_ArgumentUnion ==
    /\ pf.op = "get_all_kernel_argdefs"
         => /\ IsFirstOccurrenceUnion(pf.ret[1],
                                      [k \in DOMAIN pf.arg |-> pf.arg[k].arg_defs])
            /\ pf.ret[2] = pf.ret[1]
    /\ pf.op = "call_kernel"
         => /\ IsFirstOccurrenceUnion(pf.ret[1],
                                      [k \in DOMAIN pf.arg |-> pf.arg[k].call_args])
            /\ pf.ret[2] = pf.ret[1]

\* The union of (in_ptr1, out_ptr0), (in_ptr0, in_ptr1) keeps in_ptr1 first
\* and adds in_ptr0 last.
C12_Witness ==
    /\ pf.op = "get_all_kernel_argdefs"
    /\ Len(pf.arg) = 2
    /\ pf.arg[1].arg_defs = <<"in_ptr1", "out_ptr0">>
    /\ pf.arg[2].arg_defs = <<"in_ptr0", "in_ptr1">>
    /\ pf.ret[1] = <<"in_ptr1", "out_ptr0", "in_ptr0">>

\* C13 (benchmark before dispatch): when kernel_calls[picked_kernel] is
\* entered, picked_kernel is set, and if the call began while it was None, a
\* do_bench has been entered on every kernel_call supplied, in order, and the
\* store of the index entered has followed them.  While picked_kernel is None
\* the call has entered no kernel_call outside do_bench.
C13_BenchmarkBeforeDispatch ==
    /\ [](picked_kernel = NoneInt => \A e \in Events(rwak.trace) : ~IsCall(e))
    /\ [][(run_pc' = "call" /\ run_pc # "call")
            => LET n == Len(rwak.kernel_calls)
                   trace == rwak'.trace
                   benchmarked == \E e \in Events(rwak.trace) : ~IsCall(e)
               IN  /\ picked_kernel # NoneInt
                   /\ picked_kernel' = picked_kernel
                   /\ trace[Len(trace)] = Ev("call", picked_kernel[1])
                   /\ benchmarked
                        => /\ Len(trace) = n + 2
                           /\ \A j \in 1..n : trace[j] = Ev("do_bench", j - 1)
                           /\ trace[n + 1] = Ev("store", picked_kernel[1])
                           /\ Len(rwak.timings) = n]_vars

\* A call that began undecided with three kernel_calls has entered the winner.
C13_Witness ==
    /\ run_pc = "call"
    /\ Len(rwak.kernel_calls) = 3
    /\ Len(rwak.trace) = 5
    /\ rwak.trace[5] = Ev("call", 2)

Names(seq) == {seq[j] : j \in DOMAIN seq}

\* C14 (shared iteration sizes in glue): every name a closure of `run`
\* passes to its sub-kernel is a parameter of `run`, whose numel parameters
\* are the ones of kernels[0], also when the sub-kernels' own numel lists
\* differ.
C14_SharedNumels ==
    pf.op = "src_code"
      => /\ Names(pf.ret.run.call0) \subseteq Names(pf.ret.run.params)
         /\ Names(pf.ret.run.call1) \subseteq Names(pf.ret.run.params)

\* C15 (iteration-size names): get_numel_argdefs returns prefix + "numel" for
\* each range tree in order, leaving out exactly the trees with prefix "r"
\* when the kernel is not inside a reduction, and none when it is.
C15_NumelArgdefs ==
    pf.op = "get_numel_argdefs"
      => LET trees == pf.arg.range_trees
             kept == IF pf.arg.inside_reduction
                     THEN trees
                     ELSE SelectSeq(trees, LAMBDA tree : tree.prefix # "r")
         IN  /\ Len(pf.ret) = Len(kept)
             /\ \A j \in DOMAIN kept : pf.ret[j] = kept[j].prefix \o "numel"
             /\ pf.arg.inside_reduction => Len(pf.ret) = Len(trees)
             /\ ~pf.arg.inside_reduction
                  => /\ "rnumel" \notin Names(pf.ret)
                     /\ Len(pf.ret) = Cardinality({t \in DOMAIN trees : trees[t].prefix # "r"})

\* Range trees x, r, y outside a reduction give xnumel, ynumel.
C15_Witness ==
    /\ pf.op = "get_numel_argdefs"
    /\ ~pf.arg.inside_reduction
    /\ Len(pf.arg.range_trees) = 3
    /\ pf.arg.range_trees[2].prefix = "r"
    /\ pf.ret = <<"xnumel", "ynumel">>

\* C16 (registry invariant): no step removes or rewrites a table entry, a
\* used name or a header block; distinct keys of the table have distinct
\* names; used_names is the set of names in the table; the header has one
\* block per table entry.
C16_RegistryInvariant ==
    /\ [](\A k1, k2 \in DOMAIN subkernel_to_kernel_name :
             k1 # k2 => subkernel_to_kernel_name[k1] # subkernel_to_kernel_name[k2])
    /\ [](used_names = {subkernel_to_kernel_name[k] : k \in DOMAIN subkernel_to_kernel_name})
    /\ [](Len(header) = Cardinality(DOMAIN subkernel_to_kernel_name))
    /\ [][/\ DOMAIN subkernel_to_kernel_name \subseteq DOMAIN subkernel_to_kernel_name'
          /\ \A k \in DOMAIN subkernel_to_kernel_name :
                subkernel_to_kernel_name'[k] = subkernel_to_kernel_name[k]
          /\ used_names \subseteq used_names'
          /\ Len(header') >= Len(header)
          /\ SubSeq(header', 1, Len(header)) = header]_vars

\* Three groups are registered, and the last construction found its name in
\* use.
C16_Witness ==
    /\ Cardinality(DOMAIN subkernel_to_kernel_name) = 3
    /\ Cardinality(used_names) = 3
    /\ Len(header) = 3
    /\ mk.called /\ mk.raised = "AssertionError" /\ Len(mk.kernels) >= 2

\* C20 (failed assertion mutates nothing): a construction that fails the
\* assert on used_names leaves the table, the used names and the header as
\* they were; every registered tuple keeps the name of the header block that
\* registered it, and constructing it again returns that name.
C20_AssertBeforeMutation ==
    /\ [][(mk'.called /\ Len(mk'.kernels) >= 2 /\ mk'.raised = "AssertionError")
            => UNCHANGED registry_vars]_vars
    /\ [](\A key \in DOMAIN subkernel_to_kernel_name :
             \E b \in DOMAIN header :
                /\ header[b].kernels = key
                /\ header[b].name = subkernel_to_kernel_name[key])
    /\ [][(mk'.called /\ mk' # mk /\ Len(mk'.kernels) >= 2
             /\ \E b \in DOMAIN header : header[b].kernels = kernel_names_of(mk'.kernels))
            => \E b \in DOMAIN header :
                  /\ header[b].kernels = kernel_names_of(mk'.kernels)
                  /\ mk'.kernel_name = header[b].name
                  /\ mk'.raised = None]_vars

\* The construction of (k1, k3) failed on the name registered for (k1, k2).
C20_Witness ==
    /\ mk.called /\ mk.raised = "AssertionError"
    /\ kernel_names_of(mk.kernels) = <<KName(1), KName(3)>>
    /\ <<KName(1), KName(2)>> \in DOMAIN subkernel_to_kernel_name
    /\ subkernel_to_kernel_name[<<KName(1), KName(2)>>] = "multi_kernel_" \o KName(1)
    /\ <<KName(1), KName(3)>> \notin DOMAIN subkernel_to_kernel_name

\* The attributes of object id (1 or 2), and the object `self` is bound to.
Instance(id) ==
    IF other.id = id
    THEN [_kernels |-> other._kernels, picked_kernel |-> other.picked_kernel]
    ELSE [_kernels |-> _kernels, picked_kernel |-> picked_kernel]
Focus == 3 - other.id

\* C17 (runner independence): a step of `kernels` or run on one object
\* leaves _kernels and picked_kernel of the other object as they were, going
\* from one object to the other changes neither, and the index an object
\* stores is the first position of the least of the timings of its own call.
C17_RunnerIndependence ==
    /\ [][\A id \in {1, 2} :
            (id # Focus \/ Focus' # Focus) => Instance(id)' = Instance(id)]_vars
    /\ [][(Focus' = Focus /\ picked_kernel = NoneInt /\ picked_kernel' # NoneInt)
            => LET timings == rwak'.timings
                   p == picked_kernel'[1] + 1
               IN  /\ p \in DOMAIN timings
                   /\ \A j \in DOMAIN timings : timings[p] <= timings[j]
                   /\ \A j \in 1..(p - 1) : timings[p] < timings[j]]_vars

\* Object 1 has resolved its future and picked index 1 while object 2 has
\* its future still in the list and picked index 0.
C17_Witness ==
    /\ Instance(1).picked_kernel = Int_(1)
    /\ Instance(1)._kernels = <<Kernel(KName(1)), Kernel(KName(2))>>
    /\ Instance(2).picked_kernel = NoneInt
    /\ Instance(2)._kernels = <<Kernel(KName(2)), TritonFuture(KName(3))>>
    /\ Focus = 2
    /\ acc_ret.status = "raised"

\* C19 (picked index in range): the index stored is in 0..n-1 for the n
\* kernel_calls of the call that stores it and is never changed afterwards;
\* hence a later call with a list longer than the index, such as one of the
\* same length n, invokes kernel_calls[picked_kernel] and raises no IndexError.
C19_PickedInRange ==
    /\ [][(picked_kernel = NoneInt /\ picked_kernel' # NoneInt)
            => picked_kernel'[1] \in 0..(Len(rwak.kernel_calls) - 1)]_vars
    /\ [][picked_kernel # NoneInt => picked_kernel' = picked_kernel]_vars
    /\ [][(run_pc = "dispatch" /\ run_pc' # "dispatch"
             /\ Len(rwak.kernel_calls) > picked_kernel[1])
            => /\ rwak'.raised # "IndexError"
               /\ run_pc' = "call"
               /\ rwak'.trace[Len(rwak'.trace)] = Ev("call", picked_kernel[1])]_vars

\* The last index of a list of three was picked, and a later call with a
\* list of three invoked it.
C19_Witness ==
    /\ picked_kernel = Int_(2)
    /\ Len(rwak.kernel_calls) = 3
    /\ rwak.trace = <<Ev("call", 2)>>
    /\ rwak.raised = None
    /\ run_pc = "idle"

\* The call is inside do_bench on a kernel_call that never returns.
Hung == run_pc = "do_bench" /\ rwak.kernel_calls[run_i + 1] = Hanging

\* The first call has just begun, with at least one kernel_call, each of
\* which returns without raising.
FirstCallClean ==
    /\ run_pc = "comprehension"
    /\ rwak.trace = <<>>
    /\ npasses = 1
    /\ Len(rwak.kernel_calls) >= 1
    /\ \A i \in DOMAIN rwak.kernel_calls :
          ~rwak.kernel_calls[i].raises /\ rwak.kernel_calls[i] # Hanging

\* C18 (selection liveness): a first call whose kernel_calls all return
\* without raising gets to store picked_kernel and to invoke and return from
\* kernel_calls[picked_kernel]; a call inside do_bench on a kernel_call that
\* never returns has picked_kernel None and has invoked nothing outside
\* do_bench, and no further step is ever taken from there.
C18_SelectionLiveness ==
    /\ FirstCallClean
         ~> (/\ run_pc = "idle"
             /\ picked_kernel # NoneInt
             /\ rwak.raised = None
             /\ rwak.trace[Len(rwak.trace)] = Ev("call", picked_kernel[1]))
    /\ [](Hung => (picked_kernel = NoneInt /\ \A e \in Events(rwak.trace) : ~IsCall(e)))
    /\ [][~Hung]_vars

\* The call is in do_bench on its second kernel_call, which hangs, the first
\* one having been timed.
C18_Witness ==
    /\ Hung
    /\ run_i = 1
    /\ Len(rwak.timings) = 1
    /\ Len(rwak.kernel_calls) = 3

====
